---- MODULE Spec2Model ----
(***************************************************************************)
(* Tenant isolation and authorization model of the Enterprise Management   *)
(* Suite: the row-level-security policies of the migrations, the session   *)
(* variable app.current_tenant_id they read, the token blacklist, the      *)
(* membership store and the request path that binds a tenant to a pooled   *)
(* database session.                                                       *)
(*                                                                         *)
(* The SQL migrations and the browser client are translated from their     *)
(* sources.  The request handlers of the Rust server are not part of the   *)
(* source tree at hand; they follow sections 4-7 of the specification.     *)
(* Every query a handler issues on its pooled session is filtered by the   *)
(* policies of the migrations.  The membership store and the issuer        *)
(* (sections 4.1 and 4.5) look tenants, persons and memberships up across  *)
(* tenants, as the specification describes them.                           *)
(*                                                                         *)
(* Specifications:                                                         *)
(*   Spec            the endpoints of the server on a pooled connection    *)
(*   SpecMembership  the authenticator and the membership store under      *)
(*                   every input                                           *)
(*   SpecLifecycle   Spec with the deactivation of tenants                 *)
(*   SpecDb          statements issued directly on a database session      *)
(*   SpecClient      the browser client (AuthProvider, AppContent, the     *)
(*                   request interceptor) against the server               *)
(***************************************************************************)
EXTENDS Integers, Sequences, FiniteSets, Bags, TLC

\* ------------------------------------------------------------------ bounds
MaxTime == 2
MaxPairs == 2
MaxMembers == 3

\* ------------------------------------------------------- program constants
\* token lifetimes, in clock ticks (1 hour / 30 days in the deployment)
AccessTTL == 1
RefreshTTL == 3
\* tenants.subdomain VARCHAR(50); the create form's length limit
MaxSubdomainLen == 50

NULL == "NULL"
\* the session variable was never set on this connection
Unset == "unset"
\* the session variable was set and then reset: it reads as the empty string
Empty == ""
\* a cast that raises (invalid input syntax for type uuid)
ERROR == "ERROR"

Persons == {"p1", "p2"}
\* the e-mail addresses a login may carry: a person is named by its address,
\* and one address belongs to nobody
Emails == Persons \cup {"nobody"}
TenantIds == {"t1", "t2", "t3", "t4"}
Subdomains == {"default", "acme", "legacy", "beta"}
\* the subdomains a create-tenant request may carry: those, and one spelled
\* with an upper-case letter
RequestedSubdomains == Subdomains \cup {"Beta"}
Conns == {"c1"}

\* tenant_person.role CHECK constraint
Roles == {"internal", "customer", "vendor", "distributor"}
\* the roles joinTenant infers in the modelled contexts
JoinRoles == {r \in Roles : r \in {"internal", "customer"}}

VARIABLES
    now,              \* the clock (NOW())
    tenants,          \* public.tenants: set of rows
    tenant_person,    \* public.tenant_person: bag of rows (a row may repeat
                      \* unless a constraint forbids it)
    token_blacklist,  \* public.token_blacklist: set of rows
    tokens,           \* every token the issuer has signed
    conn,             \* the pool: each connection's session variable and request
    auth,             \* the browser client: the AuthState of the AuthProvider
    localStorage,     \* the browser client: window.localStorage
    lastRequest,      \* the browser client: the outcome of its last data request
    view              \* the browser client: the screen component that is mounted

clientVars == <<auth, localStorage, lastRequest, view>>

vars == <<now, tenants, tenant_person, token_blacklist, tokens, conn, auth,
          localStorage, lastRequest, view>>

\* ------------------------------------------------ session variable (000)
\* set_config('app.current_tenant_id', tenant_uuid::text, false): the value is
\* set for the session, not the transaction, so it outlives the request
set_tenant_context(tenant_uuid) == tenant_uuid

\* current_setting('app.current_tenant_id', true)
current_setting(v) == IF v = Unset THEN NULL ELSE v

\* (current_setting(...))::uuid : NULL stays NULL, '' does not parse
CastUuid(s) == IF s = NULL THEN NULL ELSE IF s \in TenantIds THEN s ELSE ERROR

\* RETURN (current_setting(...))::uuid; EXCEPTION WHEN OTHERS THEN RETURN NULL
get_current_tenant_id(v) ==
    LET u == CastUuid(current_setting(v))
    IN  IF u = ERROR THEN NULL ELSE u

\* ------------------------------------------------------- tenant-scoped tables
JobTables == {"jobs", "manufacturing_job", "qa_job", "service_job", "job_history"}
OrderTables == {"orders", "order_history"}
AssetTables == {"assets", "machines"}
PersonTables ==
    {"internal_person", "customer_person", "vendor_person", "distributor_person"}

\* tables whose policy is tenant_id = public.get_current_tenant_id()
DirectTables == JobTables \cup OrderTables \cup AssetTables \cup PersonTables

\* tables whose policy is tenant_id = (current_setting(...))::uuid
RawTables == {"inventory_items", "item_bom"}

\* tables without a tenant_id column, reached through a tenant-scoped parent
ChildTables ==
    {"order_items", "firmware_specific", "machine_item_relationships",
     "machine_asset_relationships", "machine_operator_assignments",
     "machine_job_assignments"}

ParentTable(tbl) ==
    CASE tbl = "order_items" -> "orders"
      [] tbl = "firmware_specific" -> "assets"
      [] OTHER -> "machines"

TenantTables == DirectTables \cup RawTables \cup ChildTables

ExistingTenantIds == {t.id : t \in tenants}

NoId == <<NULL, NULL>>

\* the rows of a table: every existing tenant owns one row of every table, a
\* child row hanging off the parent row of the same tenant; a child table has
\* no tenant_id column
TableRows(tbl) ==
    IF tbl \in ChildTables
    THEN {[tbl |-> tbl, id |-> <<tbl, t>>, tenant_id |-> NULL,
           parent_id |-> <<ParentTable(tbl), t>>] : t \in ExistingTenantIds}
    ELSE {[tbl |-> tbl, id |-> <<tbl, t>>, tenant_id |-> t, parent_id |-> NoId]
            : t \in ExistingTenantIds}

\* the tenant a row belongs to
RowTenant(row) ==
    IF row.tbl \in ChildTables
    THEN (CHOOSE p \in TableRows(ParentTable(row.tbl)) : p.id = row.parent_id).tenant_id
    ELSE row.tenant_id

\* ---------------------------------------------------------------- policies
\* USING (tenant_id = public.get_current_tenant_id()); a comparison with NULL
\* is not true, so the row is filtered
policy_direct(row, v) ==
    LET cur == get_current_tenant_id(v)
    IN  cur # NULL /\ row.tenant_id = cur

\* USING (tenant_id = (current_setting('app.current_tenant_id', true))::uuid)
policy_raw(row, v) ==
    LET cur == CastUuid(current_setting(v))
    IN  cur \notin {NULL, ERROR} /\ row.tenant_id = cur

policy_parent_NoFilter(row, v) ==
    row.parent_id \in {p.id : p \in TableRows(ParentTable(row.tbl))}

policy_parent_NullMatches(row, v) ==
    LET cur == get_current_tenant_id(v)
    IN  row.parent_id \in
            {p.id : p \in {q \in TableRows(ParentTable(row.tbl)) :
                               cur = NULL \/ q.tenant_id = cur}}

\* USING (fk IN (SELECT id FROM parent WHERE tenant_id = public.get_current_tenant_id()))
policy_parent(row, v) ==
    row.parent_id \in
        {p.id : p \in {q \in TableRows(ParentTable(row.tbl)) : policy_direct(q, v)}}

\* the query raises instead of returning rows
QueryRaises(tbl, v) == tbl \in RawTables /\ CastUuid(current_setting(v)) = ERROR

\* SELECT * FROM tbl on a session whose variable is v
Visible(tbl, v) ==
    {r \in TableRows(tbl) :
        IF tbl \in ChildTables THEN policy_parent(r, v)
        ELSE IF tbl \in RawTables THEN policy_raw(r, v)
        ELSE policy_direct(r, v)}

\* ------------------------------------------------------------------ tokens
\* the signature of a token signed with the server-held secret
Signed == "hs256"

NoToken ==
    [sub |-> NULL, tenant_id |-> NULL, role |-> NULL, typ |-> "none",
     iat |-> 0, exp |-> 0, sig |-> "none"]

\* a token nobody signed: well-formed claims under a signature that does not verify
Forged ==
    [sub |-> "p2", tenant_id |-> "t1", role |-> "internal", typ |-> "access",
     iat |-> 0, exp |-> MaxTime + AccessTTL, sig |-> "bad"]

\* issueTokenPair(person, tenant|null, role|null) at time t
issueTokenPair(person, tenant, role, t) ==
    {[sub |-> person, tenant_id |-> tenant, role |-> role, typ |-> "access",
      iat |-> t, exp |-> t + AccessTTL, sig |-> Signed],
     [sub |-> person, tenant_id |-> tenant, role |-> role, typ |-> "refresh",
      iat |-> t, exp |-> t + RefreshTTL, sig |-> Signed]}

\* the digest stored in place of the raw token: it depends on every signed
\* field and nothing else, and distinct tokens have distinct digests
token_hash(tok) == <<"sha256", tok.sub, tok.tenant_id, tok.role, tok.typ, tok.iat, tok.exp>>

\* ------------------------------------------------------- token_blacklist
\* CREATE POLICY token_blacklist_tenant_isolation ... USING (tenant_id =
\* public.get_current_tenant_id())
token_blacklist_tenant_isolation(row, v) ==
    LET cur == get_current_tenant_id(v)
    IN  cur # NULL /\ row.tenant_id = cur

\* SELECT ... FROM token_blacklist WHERE token_hash = h AND token_type = ty, on
\* a session whose variable is v
blacklist_lookup(bl, h, ty, v) ==
    {r \in bl : /\ token_blacklist_tenant_isolation(r, v)
                /\ r.token_hash = h
                /\ r.token_type = ty}

\* the record is in the table, whoever looks
InBlacklist(bl, tok) == \E r \in bl : r.token_hash = token_hash(tok)

\* ------------------------------------------------------------ validator
\* validate(token, expectedType): the four ordered checks; the blacklist
\* lookup runs on the request's pooled session, whose variable is v
validate(tok, expectedType, bl, v, t) ==
    IF tok.sig # Signed THEN "Malformed"
    ELSE IF ~(tok.exp > t) THEN "Expired"
    ELSE IF tok.typ # expectedType THEN "WrongType"
    ELSE IF blacklist_lookup(bl, token_hash(tok), expectedType, v) # {} THEN "Revoked"
    ELSE "ok"

resolveContext_HeaderWins(claims, hdr) ==
    IF claims.tenant_id = NULL THEN "NoTenantSelected"
    ELSE IF hdr # NULL THEN hdr ELSE claims.tenant_id

resolveContext_PendingByHeader(claims, hdr) ==
    IF claims.tenant_id = NULL
    THEN (IF hdr = NULL THEN "NoTenantSelected" ELSE hdr)
    ELSE IF hdr # claims.tenant_id THEN "TenantMismatch"
    ELSE claims.tenant_id

\* resolveContext(claims, requestTenantHeader) on a tenant-scoped endpoint:
\* the tenant id, or the TenantError
resolveContext(claims, hdr) ==
    IF claims.tenant_id = NULL THEN "NoTenantSelected"
    ELSE IF hdr # claims.tenant_id THEN "TenantMismatch"
    ELSE claims.tenant_id

Headers == TenantIds \cup {NULL}

\* ------------------------------------------------------------- responses
NoRes ==
    [op |-> "none", status |-> "none", tok |-> NoToken, tok2 |-> NoToken,
     hdr |-> NULL, queried |-> FALSE, rows |-> {}, blacklisted |-> FALSE,
     blacklisted2 |-> FALSE,
     issued |-> {}, subdomain |-> NULL, role |-> NULL, member |-> FALSE,
     memberAny |-> FALSE, checked |-> "none", tbl |-> NULL, target |-> NULL,
     cause |-> NULL, message |-> NULL]

IdleConn(v) == [var |-> v, stage |-> "idle", res |-> NoRes, tx |-> {}]

AllIdle == \A c \in Conns : conn[c].stage = "idle"

\* ----------------------------------------------------------- the client
\* const initialState: AuthState
initialState ==
    [isAuthenticated |-> FALSE, user |-> NULL, currentTenant |-> NULL,
     accessToken |-> NoToken, refreshToken |-> NoToken, isLoading |-> TRUE]

\* the actions the reducer takes; a field an action does not carry is absent
AuthAction(type) ==
    [type |-> type, loading |-> FALSE, user |-> NULL, tenant |-> NULL,
     accessToken |-> NoToken, refreshToken |-> NoToken]

\* const authReducer = (state, action) => ...
authReducer(state, action) ==
    CASE action.type = "SET_LOADING" -> [state EXCEPT !.isLoading = action.loading]
      [] action.type = "LOGIN_SUCCESS" ->
            [state EXCEPT !.isAuthenticated = TRUE, !.user = action.user,
                !.currentTenant = action.tenant, !.accessToken = action.accessToken,
                !.refreshToken = action.refreshToken, !.isLoading = FALSE]
      [] action.type = "PERSON_ONLY_REGISTER_SUCCESS" ->
            [state EXCEPT !.isAuthenticated = TRUE, !.user = action.user,
                !.currentTenant = NULL, !.accessToken = action.accessToken,
                !.refreshToken = action.refreshToken, !.isLoading = FALSE]
      [] action.type = "LOGOUT" -> [initialState EXCEPT !.isLoading = FALSE]
      [] action.type = "SELECT_TENANT" -> [state EXCEPT !.currentTenant = action.tenant]
      [] action.type = "REFRESH_TOKEN_SUCCESS" ->
            [state EXCEPT !.accessToken = action.accessToken,
                !.refreshToken = action.refreshToken]
      [] action.type = "CLEAR_SESSION" -> [initialState EXCEPT !.isLoading = FALSE]
      [] OTHER -> state

Route_AuthenticatedOnly(a) ==
    IF a.isLoading THEN "Loading"
    ELSE IF ~a.isAuthenticated THEN "AuthWrapper"
    ELSE "Dashboard"

\* AppContent: the screen rendered for an AuthState
Route(a) ==
    IF a.isLoading THEN "Loading"
    ELSE IF ~a.isAuthenticated THEN "AuthWrapper"
    ELSE IF a.isAuthenticated /\ a.currentTenant = NULL THEN "TenantSelection"
    ELSE "Dashboard"

\* JSON.stringify / JSON.parse of a stored value: the stored item is a string,
\* present (and truthy) even when the value is null
JSON_stringify(x) == <<"json", x>>
JSON_parse(item) == item[2]

\* localStorage without any item: getItem returns null
EmptyStorage ==
    [accessToken |-> NoToken, refreshToken |-> NoToken, user |-> NULL,
     currentTenant |-> NULL, tenantId |-> NULL]

\* saveSession(user, tenant, accessToken, refreshToken)
saveSession(ls, user, tenant, accessToken, refreshToken) ==
    [ls EXCEPT !.accessToken = accessToken, !.refreshToken = refreshToken,
        !.user = JSON_stringify(user), !.currentTenant = JSON_stringify(tenant)]

\* clearSession: the four removeItem calls
clearSession(ls) ==
    [ls EXCEPT !.accessToken = NoToken, !.refreshToken = NoToken, !.user = NULL,
        !.currentTenant = NULL]

\* Dashboard's effect: if (currentTenant) localStorage.setItem("tenantId", ...)
DashboardEffect(ls, a) ==
    IF Route(a) = "Dashboard" /\ a.currentTenant # NULL
    THEN [ls EXCEPT !.tenantId = a.currentTenant]
    ELSE ls

\* AuthService.isTokenExpired: payload.exp < Date.now() / 1000
isTokenExpired(token, t) == token.exp < t

\* the identities of mounted component instances
Instances == {"i1", "i2"}

\* a screen component (Login in AuthWrapper, TenantSelection) as it mounts:
\* useState("") for its error, useState([]) for the tenants it lists
Mount(i) == [instance |-> i, error |-> NULL, tenants |-> {}, fetched |-> FALSE]

\* the screen is unmounted and a new instance of a screen is mounted
Remount(v) == Mount(CHOOSE i \in Instances : i # v.instance)

Rendered_KeepMounted(v, before, states, err) == [v EXCEPT !.error = err]

\* the screen after a handler that took the AuthState from before through
\* states and then set its error to err: AppContent returns one element per
\* Route, so the screen keeps its instance and state only if every render
\* returned its own element; a state set on an unmounted instance is lost
Rendered(v, before, states, err) ==
    IF \A i \in DOMAIN states : Route(states[i]) = Route(before)
    THEN [v EXCEPT !.error = err]
    ELSE Remount(v)

\* the outcome of a data request, with what the client did about it
NoRequest == [status |-> "none", refreshCalls |-> 0, retried |-> FALSE]

\* ------------------------------------------------------------------- Init
\* 001_create_tenants_table.sql inserts the default tenant; two more tenants,
\* one of them deactivated, and the membership of the default tenant's first
\* person are provisioned; the second person starts without a membership
InitTenants ==
    {[id |-> "t1", subdomain |-> "default", is_active |-> TRUE],
     [id |-> "t2", subdomain |-> "acme", is_active |-> TRUE],
     [id |-> "t3", subdomain |-> "legacy", is_active |-> FALSE]}

InitMembers ==
    {[person_id |-> "p1", tenant_id |-> "t1", role |-> "internal", is_primary |-> TRUE]}

Init ==
    /\ now = 0
    /\ tenants = InitTenants
    /\ tenant_person = [m \in InitMembers |-> 1]
    /\ token_blacklist = {}
    /\ tokens = {}
    /\ conn = [c \in Conns |-> IdleConn(Unset)]
    /\ auth = initialState
    /\ localStorage = EmptyStorage
    /\ lastRequest = NoRequest
    /\ view = Mount("i1")

\* ---------------------------------------------------------------- actions
\* time passes between requests
Tick ==
    /\ now < MaxTime
    /\ AllIdle
    /\ now' = now + 1
    /\ UNCHANGED <<tenants, tenant_person, token_blacklist, tokens, conn>>

Members == DOMAIN tenant_person

ActiveTenantIds == {t.id : t \in {u \in tenants : u.is_active}}

NoMembership == [person_id |-> NULL, tenant_id |-> NULL, role |-> NULL, is_primary |-> FALSE]

\* the memberships a login may bind: the person's rows in active tenants
LoginMemberships(p) ==
    {m \in Members : m.person_id = p /\ m.tenant_id \in ActiveTenantIds}

authenticate_NotFound(email, pwOk) ==
    IF email \notin Persons THEN "NotFound"
    ELSE IF ~pwOk THEN "InvalidCredentials"
    ELSE "ok"

\* authenticate(email, password): look the person up by e-mail, verify the
\* password hash
authenticate(email, pwOk) ==
    IF email \notin Persons THEN "InvalidCredentials"
    ELSE IF ~pwOk THEN "InvalidCredentials"
    ELSE "ok"

\* why an authentication failed (not part of the response)
auth_failure(email, pwOk) ==
    IF email \notin Persons THEN "NoSuchPerson"
    ELSE IF ~pwOk THEN "WrongPassword"
    ELSE NULL

\* the HTTP status of an error of the taxonomy
http_status(status) ==
    CASE status = "ok" -> 200
      [] status = "InvalidCredentials" -> 401
      [] status = "NotFound" -> 404
      [] status = "TenantNotFound" -> 404
      [] status = "TenantInactive" -> 403
      [] status \in {"AlreadyMember", "SubdomainTaken", "EmailExists"} -> 409
      [] status = "ValidationError" -> 400
      [] status \in {"Malformed", "Expired", "WrongType", "Revoked"} -> 401
      [] OTHER -> 500

\* AuthService.login: the message of the Error thrown for a failed login
login_error(http) ==
    IF http = 200 THEN NULL
    ELSE IF http = 401 THEN "Invalid email or password"
    ELSE IF http = 404 THEN "User or tenant not found"
    ELSE "Login failed. Please try again."

\* AuthService.joinTenant: the message of the Error thrown for a failed join
join_error(http) ==
    IF http = 200 THEN NULL
    ELSE IF http = 404 THEN "Organization not found"
    ELSE IF http = 403 THEN "Organization is not active"
    ELSE IF http = 409 THEN "You are already a member of this organization"
    ELSE IF http = 401 THEN "Please log in again"
    ELSE "Failed to join organization. Please try again."

\* AuthService.createAndJoinTenant: the message of the Error thrown for a
\* failed creation
create_error(http) ==
    IF http = 200 THEN NULL
    ELSE IF http = 409 THEN "Organization subdomain already exists"
    ELSE IF http = 400 THEN "Invalid organization data"
    ELSE IF http = 401 THEN "Please log in again"
    ELSE "Failed to create organization. Please try again."

\* TenantService.getAccessibleTenants: the message of the Error thrown
accessible_error(http) ==
    IF http = 200 THEN NULL
    ELSE IF http = 401 THEN "Unauthorized access"
    ELSE "Failed to fetch accessible tenants"

\* POST /auth/login: authenticate, then issueTokenPair for the person and the
\* tenant of a membership, or no tenant for a person without memberships
Login(c, p, pwOk, m) ==
    /\ conn[c].stage = "idle"
    /\ m \in LoginMemberships(p) \cup {NoMembership}
    /\ (m = NoMembership) <=> (LoginMemberships(p) = {})
    /\ LET pair == issueTokenPair(p, m.tenant_id, m.role, now)
           status == authenticate(p, pwOk)
           ok == status = "ok"
       IN  /\ Cardinality(tokens \cup pair) <= 2 * MaxPairs
           /\ tokens' = IF ok THEN tokens \cup pair ELSE tokens
           /\ conn' = [conn EXCEPT ![c] =
                 [var |-> Empty, stage |-> "done", tx |-> {},
                  res |-> [NoRes EXCEPT !.op = "login",
                              !.status = status,
                              !.cause = auth_failure(p, pwOk),
                              !.message = login_error(http_status(status)),
                              !.issued = IF ok THEN pair ELSE {}]]]
    /\ UNCHANGED <<now, tenants, tenant_person, token_blacklist>>

Bearer == tokens \cup {Forged}

\* a tenant-scoped endpoint, up to the binding of the session: validate the
\* bearer token, resolve the tenant context, bind it to the session
Start(c, tok, hdr) ==
    /\ conn[c].stage = "idle"
    /\ tok \in Bearer
    /\ LET v == conn[c].var
           checked == validate(tok, "access", token_blacklist, v, now)
           ctx == IF checked = "ok" THEN resolveContext(tok, hdr) ELSE checked
           served == ctx \in TenantIds
       IN  conn' = [conn EXCEPT ![c] =
                 [var |-> IF served THEN set_tenant_context(ctx) ELSE Empty,
                  stage |-> IF served THEN "bound" ELSE "done",
                  tx |-> {},
                  res |-> [NoRes EXCEPT !.op = "data",
                              !.status = IF served THEN "pending" ELSE ctx,
                              !.tok = tok, !.hdr = hdr, !.checked = checked,
                              !.blacklisted = InBlacklist(token_blacklist, tok)]]]
    /\ UNCHANGED <<now, tenants, tenant_person, token_blacklist, tokens>>

\* the handler's query on the bound session
Query(c, tbl) ==
    /\ conn[c].stage = "bound"
    /\ conn[c].res.op = "data"
    /\ LET v == conn[c].var
       IN  conn' = [conn EXCEPT ![c].stage = "done",
                 ![c].res.queried = TRUE,
                 ![c].res.status = IF QueryRaises(tbl, v) THEN "Error" ELSE "ok",
                 ![c].res.rows = IF QueryRaises(tbl, v) THEN {} ELSE Visible(tbl, v)]
    /\ UNCHANGED <<now, tenants, tenant_person, token_blacklist, tokens>>

\* the handler fails (error path) or the request is aborted mid-flight
Abort(c, how) ==
    /\ conn[c].stage \in {"bound", "tx"}
    /\ how \in {"Error", "Cancelled"}
    /\ conn' = [conn EXCEPT ![c].stage = "done", ![c].res.status = how, ![c].tx = {}]
    /\ UNCHANGED <<now, tenants, tenant_person, token_blacklist, tokens>>

release_KeepOnError(status, v) == IF status \in {"Error", "Cancelled"} THEN v ELSE Empty

\* the session variable a released connection carries: reset on every exit path
release(status, v) == Empty

\* the connection goes back to the pool; a connection whose reset failed is
\* discarded and a fresh one (variable never set) takes its place
Release(c, resetOk) ==
    /\ conn[c].stage = "done"
    /\ conn[c].res.status # "NotSent"
    /\ conn' = [conn EXCEPT ![c] =
          IdleConn(IF resetOk THEN release(conn[c].res.status, conn[c].var) ELSE Unset)]
    /\ UNCHANGED <<now, tenants, tenant_person, token_blacklist, tokens>>

\* ------------------------------------------------------ refresh, logout
\* INSERT INTO token_blacklist: token_hash is UNIQUE, and revoking a token
\* that is already revoked is a no-op
blacklist_insert(bl, tok, person, tenant) ==
    IF \E r \in bl : r.token_hash = token_hash(tok) THEN bl
    ELSE bl \cup {[token_hash |-> token_hash(tok), token_type |-> tok.typ,
                   person_id |-> person, tenant_id |-> tenant,
                   expires_at |-> tok.exp]}

revoke_outcome_UniqueViolation(bl, tok) ==
    IF \E r \in bl : r.token_hash = token_hash(tok) THEN "Error" ELSE "ok"

\* the outcome of revoking tok: the insert of a hash that is already stored
\* is skipped, not reported
revoke_outcome(bl, tok) == "ok"

\* revoke(accessToken, refreshToken): the outcome of the two inserts
revoke(bl, A, R) ==
    IF revoke_outcome(bl, A) = "ok" /\ revoke_outcome(bl, R) = "ok" THEN "ok" ELSE "Error"

refresh_Rotating(bl, R) == blacklist_insert(bl, R, R.sub, R.tenant_id)

\* what a successful refresh leaves in the blacklist: refresh token rotation
\* is not implemented, the old refresh token is not revoked
refresh_blacklist(bl, R) == bl

\* POST /auth/refresh {refresh_token}: no bearer token, no tenant header
Refresh(c, R) ==
    /\ conn[c].stage = "idle"
    /\ R \in Bearer
    /\ LET checked == validate(R, "refresh", token_blacklist, conn[c].var, now)
           ok == checked = "ok"
           pair == issueTokenPair(R.sub, R.tenant_id, R.role, now)
       IN  /\ Cardinality(tokens \cup pair) <= 2 * MaxPairs
           /\ tokens' = IF ok THEN tokens \cup pair ELSE tokens
           /\ token_blacklist' =
                 IF ok THEN refresh_blacklist(token_blacklist, R) ELSE token_blacklist
           /\ conn' = [conn EXCEPT ![c] =
                 [var |-> Empty, stage |-> "done", tx |-> {},
                  res |-> [NoRes EXCEPT !.op = "refresh", !.status = checked,
                              !.tok = R, !.checked = checked,
                              !.blacklisted = InBlacklist(token_blacklist, R),
                              !.issued = IF ok THEN pair ELSE {}]]]
    /\ UNCHANGED <<now, tenants, tenant_person>>

\* the pairs a browser session can hold: an access and a refresh token of
\* the same person, tenant and role
SessionPairs ==
    {<<A, R>> \in tokens \X tokens :
        /\ A.typ = "access" /\ R.typ = "refresh"
        /\ A.sub = R.sub /\ A.tenant_id = R.tenant_id /\ A.role = R.role}

logout_calls_server_Always(accessToken, refreshToken, currentTenant) ==
    refreshToken # NoToken /\ accessToken # NoToken

\* if (state.refreshToken && state.accessToken && state.currentTenant)
\*     await AuthService.logout(...)
logout_calls_server(accessToken, refreshToken, currentTenant) ==
    refreshToken # NoToken /\ accessToken # NoToken /\ currentTenant # NULL

\* logout() of a browser session holding A and R, with its currentTenant: the
\* server is called only if a current tenant is set, with that tenant in the
\* X-Tenant-ID header; the server validates the bearer token, resolves and
\* binds the tenant and inserts a blacklist record for both tokens
LogoutWith(c, A, R, currentTenant) ==
    /\ conn[c].stage = "idle"
    /\ <<A, R>> \in SessionPairs
    /\ LET sent == logout_calls_server(A, R, currentTenant)
           v == conn[c].var
           checked == validate(A, "access", token_blacklist, v, now)
           ctx == IF checked = "ok" THEN resolveContext(A, currentTenant) ELSE checked
           served == sent /\ ctx \in TenantIds
       IN  /\ token_blacklist' =
                 IF served
                 THEN blacklist_insert(blacklist_insert(token_blacklist, A, A.sub, ctx),
                                       R, A.sub, ctx)
                 ELSE token_blacklist
           /\ conn' = [conn EXCEPT ![c] =
                 [var |-> IF served THEN set_tenant_context(ctx)
                          ELSE IF sent THEN Empty ELSE v,
                  stage |-> "done", tx |-> {},
                  res |-> [NoRes EXCEPT !.op = "logout",
                              !.status = IF ~sent THEN "NotSent"
                                         ELSE IF served
                                         THEN revoke(token_blacklist, A, R)
                                         ELSE ctx,
                              !.tok = A, !.tok2 = R, !.hdr = currentTenant,
                              !.checked = checked,
                              !.blacklisted = InBlacklist(token_blacklist, A),
                              !.blacklisted2 = InBlacklist(token_blacklist, R)]]]
    /\ UNCHANGED <<now, tenants, tenant_person, tokens>>

\* logout() of the browser session holding A and R with currentTenant the
\* tenant of A
Logout(c, A, R) == LogoutWith(c, A, R, A.tenant_id)

\* clearSession(): the browser drops a session whose logout never reached
\* the server
ClearSession(c) ==
    /\ conn[c].stage = "done"
    /\ conn[c].res.status = "NotSent"
    /\ conn' = [conn EXCEPT ![c] = IdleConn(conn[c].var)]
    /\ UNCHANGED <<now, tenants, tenant_person, token_blacklist, tokens>>

expired_records_All(bl, t) == bl

\* the rows of WHERE expires_at < NOW()
expired_records(bl, t) == {r \in bl : r.expires_at < t}

\* cleanup_expired_tokens(): DELETE FROM token_blacklist WHERE expires_at < NOW()
cleanup_expired_tokens ==
    /\ token_blacklist' = token_blacklist \ expired_records(token_blacklist, now)
    /\ UNCHANGED <<now, tenants, tenant_person, tokens, conn>>

\* ------------------------------------------------------ membership store
membership_key_PersonTenant(m) == <<m.person_id, m.tenant_id>>

\* UNIQUE(person_id, tenant_id, role): the columns that identify a membership
membership_key(m) == <<m.person_id, m.tenant_id, m.role>>

\* the existing Membership for (person, tenant, inferred role), if any
membership_exists(tp, m) ==
    \E x \in DOMAIN tp : membership_key(x) = membership_key(m)

\* SELECT * FROM tenants WHERE subdomain = s
tenant_by_subdomain(s) == {t \in tenants : t.subdomain = s}

\* POST /auth/join-tenant {tenant_subdomain}: a membership endpoint, reachable
\* with a token that has no tenant; the role is inferred from the context
JoinTenant(c, A, subdomain, role) ==
    /\ conn[c].stage = "idle"
    /\ A \in Bearer
    /\ LET checked == validate(A, "access", token_blacklist, conn[c].var, now)
           found == tenant_by_subdomain(subdomain)
           t == IF found = {} THEN [id |-> NULL, subdomain |-> subdomain, is_active |-> FALSE]
                ELSE CHOOSE x \in found : TRUE
           row == [person_id |-> A.sub, tenant_id |-> t.id, role |-> role,
                   is_primary |-> FALSE]
           status == IF checked # "ok" THEN checked
                     ELSE IF found = {} THEN "TenantNotFound"
                     ELSE IF ~t.is_active THEN "TenantInactive"
                     ELSE IF membership_exists(tenant_person, row) THEN "AlreadyMember"
                     ELSE "ok"
           ok == status = "ok"
           pair == issueTokenPair(A.sub, t.id, role, now)
       IN  /\ ok => BagCardinality(tenant_person) < MaxMembers
           /\ ok => Cardinality(tokens \cup pair) <= 2 * MaxPairs
           /\ tenant_person' = IF ok THEN tenant_person (+) SetToBag({row}) ELSE tenant_person
           /\ tokens' = IF ok THEN tokens \cup pair ELSE tokens
           /\ conn' = [conn EXCEPT ![c] =
                 [var |-> Empty, stage |-> "done", tx |-> {},
                  res |-> [NoRes EXCEPT !.op = "join", !.status = status, !.tok = A,
                              !.subdomain = subdomain, !.role = role,
                              !.checked = checked,
                              !.blacklisted = InBlacklist(token_blacklist, A),
                              !.memberAny = (checked = "ok" /\ found # {}
                                             /\ \E x \in Members :
                                                   /\ x.person_id = A.sub
                                                   /\ x.tenant_id = t.id),
                              !.member = (checked = "ok" /\ found # {}
                                          /\ \E x \in Members :
                                                /\ x.person_id = A.sub
                                                /\ x.tenant_id = t.id
                                                /\ x.role = role),
                              !.issued = IF ok THEN pair ELSE {}]]]
    /\ UNCHANGED <<now, tenants, token_blacklist>>

tx_insert_Autocommit(committed, row) == committed \cup {row}

\* an INSERT inside an open transaction: the committed table, which is what
\* every other session reads, does not show the row before COMMIT
tx_insert(committed, row) == committed

\* the characters of a subdomain of the fixture
Spelling(s) ==
    CASE s = "default" -> <<"d", "e", "f", "a", "u", "l", "t">>
      [] s = "acme" -> <<"a", "c", "m", "e">>
      [] s = "legacy" -> <<"l", "e", "g", "a", "c", "y">>
      [] s = "beta" -> <<"b", "e", "t", "a">>
      [] s = "Beta" -> <<"B", "e", "t", "a">>
      [] OTHER -> <<>>

\* the character class [a-z0-9-]
SubdomainChars ==
    {"a", "b", "c", "d", "e", "f", "g", "h", "i", "j", "k", "l", "m", "n", "o", "p",
     "q", "r", "s", "t", "u", "v", "w", "x", "y", "z",
     "0", "1", "2", "3", "4", "5", "6", "7", "8", "9", "-"}

\* String.prototype.toLowerCase on one character (LOWER in SQL)
lower_char(ch) ==
    CASE ch = "A" -> "a" [] ch = "B" -> "b" [] ch = "C" -> "c" [] ch = "D" -> "d"
      [] ch = "L" -> "l" [] OTHER -> ch

\* the lower-cased spelling of a subdomain
lower(s) == [i \in DOMAIN Spelling(s) |-> lower_char(Spelling(s)[i])]

valid_subdomain_AnyCase(s) ==
    /\ Len(Spelling(s)) > 0
    /\ Len(Spelling(s)) <= MaxSubdomainLen
    /\ \A i \in DOMAIN Spelling(s) : lower_char(Spelling(s)[i]) \in SubdomainChars

\* the subdomain rule: not empty, at most 50 characters, /^[a-z0-9-]+$/
valid_subdomain(s) ==
    /\ Len(Spelling(s)) > 0
    /\ Len(Spelling(s)) <= MaxSubdomainLen
    /\ \A i \in DOMAIN Spelling(s) : Spelling(s)[i] \in SubdomainChars

\* a tenant holds the subdomain already, compared without regard to case
subdomain_taken(s) == \E t \in tenants : lower(t.subdomain) = lower(s)

\* gen_random_uuid() for the new tenant
NewTenantId == CHOOSE id \in TenantIds : id \notin ExistingTenantIds

\* POST /auth/create-tenant {tenant_name, tenant_subdomain}, up to the Tenant
\* insert: BEGIN; INSERT INTO tenants
CreateBegin(c, A, subdomain) ==
    /\ conn[c].stage = "idle"
    /\ A \in Bearer
    /\ LET checked == validate(A, "access", token_blacklist, conn[c].var, now)
           status == IF checked # "ok" THEN checked
                     ELSE IF subdomain_taken(subdomain) THEN "SubdomainTaken"
                     ELSE IF ~valid_subdomain(subdomain) THEN "ValidationError"
                     ELSE "pending"
           ok == status = "pending"
           row == [id |-> NewTenantId, subdomain |-> subdomain, is_active |-> TRUE]
       IN  /\ ok => TenantIds \ ExistingTenantIds # {}
           /\ ok => BagCardinality(tenant_person) < MaxMembers
           /\ ok => Cardinality(tokens \cup issueTokenPair(A.sub, row.id, "internal", now))
                       <= 2 * MaxPairs
           /\ tenants' = IF ok THEN tx_insert(tenants, row) ELSE tenants
           /\ conn' = [conn EXCEPT ![c] =
                 [var |-> Empty, stage |-> IF ok THEN "tx" ELSE "done",
                  tx |-> IF ok THEN {row} ELSE {},
                  res |-> [NoRes EXCEPT !.op = "create", !.status = status, !.tok = A,
                              !.subdomain = subdomain, !.checked = checked,
                              !.blacklisted = InBlacklist(token_blacklist, A)]]]
    /\ UNCHANGED <<now, tenant_person, token_blacklist, tokens>>

\* the rest of create-tenant: INSERT INTO tenant_person (role internal,
\* primary); COMMIT; mint the tenant-bound pair
CreateCommit(c) ==
    /\ conn[c].stage = "tx"
    /\ LET row == CHOOSE x \in conn[c].tx : TRUE
           creator == conn[c].res.tok.sub
           m == [person_id |-> creator, tenant_id |-> row.id, role |-> "internal",
                 is_primary |-> TRUE]
           pair == issueTokenPair(creator, row.id, "internal", now)
       IN  /\ tenants' = tenants \cup {row}
           /\ tenant_person' = tenant_person (+) SetToBag({m})
           /\ tokens' = tokens \cup pair
           /\ conn' = [conn EXCEPT ![c].stage = "done", ![c].tx = {},
                          ![c].res.status = "ok", ![c].res.issued = pair]
    /\ UNCHANGED <<now, token_blacklist>>

\* CREATE POLICY tenant_isolation ON public.tenants ... USING (id =
\* public.get_current_tenant_id())
tenant_isolation(t, v) ==
    LET cur == get_current_tenant_id(v)
    IN  cur # NULL /\ t.id = cur

\* CREATE POLICY tenant_person_tenant_isolation ... USING (tenant_id =
\* public.get_current_tenant_id())
tenant_person_tenant_isolation(m, v) ==
    LET cur == get_current_tenant_id(v)
    IN  cur # NULL /\ m.tenant_id = cur

\* listAccessibleTenants(person): the active tenants joined with the person's
\* memberships, selected on a session whose variable is v
listAccessibleTenants(person, v) ==
    {t \in tenants :
        /\ tenant_isolation(t, v)
        /\ t.is_active
        /\ \E m \in Members : /\ tenant_person_tenant_isolation(m, v)
                              /\ m.person_id = person
                              /\ m.tenant_id = t.id}

\* GET /tenants/accessible with a bearer token and no tenant header: the
\* handler validates the token and runs the lookup on its pooled session
ListTenants(c, A) ==
    /\ conn[c].stage = "idle"
    /\ A \in Bearer
    /\ LET checked == validate(A, "access", token_blacklist, conn[c].var, now)
       IN  conn' = [conn EXCEPT ![c] =
                 [var |-> conn[c].var, stage |-> "done", tx |-> {},
                  res |-> [NoRes EXCEPT !.op = "list", !.status = checked, !.tok = A,
                              !.checked = checked,
                              !.blacklisted = InBlacklist(token_blacklist, A),
                              !.rows = IF checked = "ok"
                                       THEN listAccessibleTenants(A.sub, conn[c].var)
                                       ELSE {}]]]
    /\ UNCHANGED <<now, tenants, tenant_person, token_blacklist, tokens>>

Next ==
    \/ Tick /\ UNCHANGED clientVars
    \/ \E c \in Conns, p \in Persons, pwOk \in BOOLEAN, m \in Members \cup {NoMembership} :
          Login(c, p, pwOk, m) /\ UNCHANGED clientVars
    \/ \E c \in Conns, tok \in Bearer, hdr \in Headers : Start(c, tok, hdr) /\ UNCHANGED clientVars
    \/ \E c \in Conns, tbl \in TenantTables : Query(c, tbl) /\ UNCHANGED clientVars
    \/ \E c \in Conns, how \in {"Error", "Cancelled"} : Abort(c, how) /\ UNCHANGED clientVars
    \/ \E c \in Conns, resetOk \in BOOLEAN : Release(c, resetOk) /\ UNCHANGED clientVars
    \/ \E c \in Conns, R \in Bearer : Refresh(c, R) /\ UNCHANGED clientVars
    \/ \E c \in Conns, A \in tokens, R \in tokens : Logout(c, A, R) /\ UNCHANGED clientVars
    \/ \E c \in Conns : ClearSession(c) /\ UNCHANGED clientVars
    \/ cleanup_expired_tokens /\ UNCHANGED clientVars
    \/ \E c \in Conns, A \in Bearer, subdomain \in Subdomains, role \in JoinRoles :
          JoinTenant(c, A, subdomain, role) /\ UNCHANGED clientVars
    \/ \E c \in Conns, A \in Bearer, subdomain \in Subdomains :
          CreateBegin(c, A, subdomain) /\ UNCHANGED clientVars
    \/ \E c \in Conns : CreateCommit(c) /\ UNCHANGED clientVars

Spec == Init /\ [][Next]_vars

\* ------------------------------------------- identity and membership
\* The endpoints of the authenticator and the membership store (sections 4.1
\* and 4.5) under every input: a login with an address nobody has, a
\* create-tenant request with a subdomain outside [a-z0-9-], and the lookup
\* of the accessible tenants.
NextMembership ==
    \/ Tick /\ UNCHANGED clientVars
    \/ \E c \in Conns, p \in Emails, pwOk \in BOOLEAN, m \in Members \cup {NoMembership} :
          Login(c, p, pwOk, m) /\ UNCHANGED clientVars
    \/ \E c \in Conns, how \in {"Error", "Cancelled"} : Abort(c, how) /\ UNCHANGED clientVars
    \/ \E c \in Conns, resetOk \in BOOLEAN : Release(c, resetOk) /\ UNCHANGED clientVars
    \/ \E c \in Conns, A \in Bearer, subdomain \in Subdomains, role \in JoinRoles :
          JoinTenant(c, A, subdomain, role) /\ UNCHANGED clientVars
    \/ \E c \in Conns, A \in Bearer, subdomain \in RequestedSubdomains :
          CreateBegin(c, A, subdomain) /\ UNCHANGED clientVars
    \/ \E c \in Conns : CreateCommit(c) /\ UNCHANGED clientVars
    \/ \E c \in Conns, A \in Bearer : ListTenants(c, A) /\ UNCHANGED clientVars

SpecMembership == Init /\ [][NextMembership]_vars

\* ------------------------------------------------- the client's steps
\* the token of one type in a set of issued tokens
TokenOf(pair, typ) == CHOOSE k \in pair : k.typ = typ

\* the page is loaded and the AuthProvider mounts: loadSession, all branches
\* but the refresh of an expired token
PageLoad ==
    /\ LET ls == localStorage
           present == /\ ls.accessToken # NoToken /\ ls.refreshToken # NoToken
                      /\ ls.user # NULL /\ ls.currentTenant # NULL
           loaded == IF present
                     THEN authReducer(initialState,
                              [AuthAction("LOGIN_SUCCESS") EXCEPT
                                  !.user = JSON_parse(ls.user),
                                  !.tenant = JSON_parse(ls.currentTenant),
                                  !.accessToken = ls.accessToken,
                                  !.refreshToken = ls.refreshToken])
                     ELSE authReducer(initialState, AuthAction("SET_LOADING"))
       IN  /\ ~(present /\ isTokenExpired(ls.accessToken, now))
           /\ auth' = loaded
           /\ localStorage' = DashboardEffect(ls, loaded)
    /\ lastRequest' = NoRequest
    /\ view' = Remount(view)
    /\ UNCHANGED <<now, tenants, tenant_person, token_blacklist, tokens, conn>>

\* the page is loaded with an expired stored access token: loadSession calls
\* refreshAccessToken, which posts the stored refresh token
PageLoadRefresh(c) ==
    /\ LET ls == localStorage
       IN  /\ ls.accessToken # NoToken /\ ls.refreshToken # NoToken
           /\ ls.user # NULL /\ ls.currentTenant # NULL
           /\ isTokenExpired(ls.accessToken, now)
           /\ Refresh(c, ls.refreshToken)
           /\ LET res == conn'[c].res
              IN  IF res.status = "ok"
                  THEN /\ auth' = authReducer(initialState,
                                     [AuthAction("REFRESH_TOKEN_SUCCESS") EXCEPT
                                         !.accessToken = TokenOf(res.issued, "access"),
                                         !.refreshToken = TokenOf(res.issued, "refresh")])
                       /\ localStorage' =
                             [ls EXCEPT !.accessToken = TokenOf(res.issued, "access"),
                                        !.refreshToken = TokenOf(res.issued, "refresh")]
                  ELSE /\ auth' = authReducer(initialState, AuthAction("CLEAR_SESSION"))
                       /\ localStorage' = clearSession(ls)
    /\ lastRequest' = NoRequest
    /\ view' = Remount(view)

\* the login form is submitted: login(credentials) of the AuthProvider
ClientLogin(c, email, pwOk, m) ==
    /\ Route(auth) = "AuthWrapper"
    /\ Login(c, email, pwOk, m)
    /\ LET res == conn'[c].res
           loading == authReducer(auth, [AuthAction("SET_LOADING") EXCEPT !.loading = TRUE])
       IN  /\ IF res.status = "ok"
              THEN LET A == TokenOf(res.issued, "access")
                       R == TokenOf(res.issued, "refresh")
                       after == authReducer(loading,
                                    [AuthAction("LOGIN_SUCCESS") EXCEPT
                                        !.user = A.sub, !.tenant = A.tenant_id,
                                        !.accessToken = A, !.refreshToken = R])
                   IN  /\ auth' = after
                       /\ localStorage' =
                             DashboardEffect(
                                 saveSession(localStorage, A.sub, A.tenant_id, A, R), after)
              ELSE /\ auth' = authReducer(loading, AuthAction("SET_LOADING"))
                   /\ UNCHANGED localStorage
           /\ view' = Rendered(view, auth, <<loading, auth'>>, res.message)
    /\ UNCHANGED lastRequest

\* a page of the dashboard calls a data service (getAllJobs, ...): the request
\* interceptor attaches Authorization and X-Tenant-ID from localStorage; an
\* error answer is logged and rethrown to the page
ClientRequest(c) ==
    /\ Route(auth) = "Dashboard"
    /\ localStorage.accessToken # NoToken
    /\ Start(c, localStorage.accessToken, localStorage.tenantId)
    /\ lastRequest' = [status |-> conn'[c].res.status, refreshCalls |-> 0,
                       retried |-> FALSE]
    /\ UNCHANGED <<auth, localStorage, view>>

\* the server answers the data request
ClientResponse(c, tbl) ==
    /\ Query(c, tbl)
    /\ lastRequest' = [lastRequest EXCEPT !.status = conn'[c].res.status]
    /\ UNCHANGED <<auth, localStorage, view>>

\* the person a registration creates
Registrant == "p3"

\* the e-mail address is taken: the person has registered before
registered(p) == p \in Persons \/ \E k \in tokens : k.sub = p

\* POST /auth/person-register: the person is created, without a tenant, and a
\* pair without a tenant is issued
PersonRegister(c, p) ==
    /\ conn[c].stage = "idle"
    /\ LET status == IF registered(p) THEN "EmailExists" ELSE "ok"
           ok == status = "ok"
           pair == issueTokenPair(p, NULL, NULL, now)
       IN  /\ ok => Cardinality(tokens \cup pair) <= 2 * MaxPairs
           /\ tokens' = IF ok THEN tokens \cup pair ELSE tokens
           /\ conn' = [conn EXCEPT ![c] =
                 [var |-> Empty, stage |-> "done", tx |-> {},
                  res |-> [NoRes EXCEPT !.op = "register", !.status = status,
                              !.issued = IF ok THEN pair ELSE {}]]]
    /\ UNCHANGED <<now, tenants, tenant_person, token_blacklist>>

\* the registration form is submitted: register(data) of the AuthProvider;
\* the session is stored without a currentTenant item
ClientRegister(c) ==
    /\ Route(auth) = "AuthWrapper"
    /\ PersonRegister(c, Registrant)
    /\ LET res == conn'[c].res
           loading == authReducer(auth, [AuthAction("SET_LOADING") EXCEPT !.loading = TRUE])
       IN  /\ IF res.status = "ok"
              THEN LET A == TokenOf(res.issued, "access")
                       R == TokenOf(res.issued, "refresh")
                   IN  /\ auth' = authReducer(loading,
                                      [AuthAction("PERSON_ONLY_REGISTER_SUCCESS") EXCEPT
                                          !.user = A.sub, !.accessToken = A,
                                          !.refreshToken = R])
                       /\ localStorage' =
                             [localStorage EXCEPT !.accessToken = A, !.refreshToken = R,
                                                  !.user = JSON_stringify(A.sub)]
              ELSE /\ auth' = authReducer(loading, AuthAction("SET_LOADING"))
                   /\ UNCHANGED localStorage
           /\ view' = Rendered(view, auth, <<loading, auth'>>,
                                IF res.status = "ok" THEN NULL ELSE "Email already exists")
    /\ UNCHANGED lastRequest

\* TenantSelection mounts: fetchTenants calls getAccessibleTenants, whose
\* interceptor attaches the stored access token and no tenant header
ClientFetchTenants(c) ==
    /\ Route(auth) = "TenantSelection"
    /\ ~view.fetched
    /\ localStorage.accessToken # NoToken
    /\ ListTenants(c, localStorage.accessToken)
    /\ LET res == conn'[c].res
       IN  view' = [view EXCEPT !.fetched = TRUE,
                       !.tenants = IF res.status = "ok" THEN res.rows ELSE {},
                       !.error = accessible_error(
                                     IF res.status = "ok" THEN 200
                                     ELSE http_status(res.status))]
    /\ UNCHANGED <<auth, localStorage, lastRequest>>

\* joinTenant(tenantSubdomain) of the AuthProvider, which handleConfirmSelection
\* of TenantSelection calls with the subdomain of the selected tenant
ClientJoin(c, subdomain, role) ==
    /\ Route(auth) = "TenantSelection"
    /\ view.fetched
    /\ auth.accessToken # NoToken
    /\ JoinTenant(c, auth.accessToken, subdomain, role)
    /\ LET res == conn'[c].res
           loading == authReducer(auth, [AuthAction("SET_LOADING") EXCEPT !.loading = TRUE])
       IN  /\ IF res.status = "ok"
              THEN LET A == TokenOf(res.issued, "access")
                       R == TokenOf(res.issued, "refresh")
                       after == authReducer(loading,
                                    [AuthAction("LOGIN_SUCCESS") EXCEPT
                                        !.user = A.sub, !.tenant = A.tenant_id,
                                        !.accessToken = A, !.refreshToken = R])
                   IN  /\ auth' = after
                       /\ localStorage' =
                             DashboardEffect(
                                 saveSession(localStorage, A.sub, A.tenant_id, A, R), after)
              ELSE /\ auth' = authReducer(loading, AuthAction("SET_LOADING"))
                   /\ UNCHANGED localStorage
           /\ view' = Rendered(view, auth, <<loading, auth'>>,
                                join_error(IF res.status = "ok" THEN 200
                                           ELSE http_status(res.status)))
    /\ UNCHANGED lastRequest

\* validateCreateForm: the message under the subdomain field, if any
validateCreateForm(subdomain) ==
    IF Len(Spelling(subdomain)) = 0 THEN "Subdomain is required"
    ELSE IF Len(Spelling(subdomain)) > MaxSubdomainLen
    THEN "Subdomain must be 50 characters or less"
    ELSE IF \E i \in DOMAIN Spelling(subdomain) : Spelling(subdomain)[i] \notin SubdomainChars
    THEN "Subdomain can only contain lowercase letters, numbers, and hyphens"
    ELSE NULL

\* the create form is submitted: handleCreateTenant validates the form and
\* calls createAndJoinTenant, which is in flight until the server answers
ClientCreate(c, subdomain) ==
    /\ Route(auth) = "TenantSelection"
    /\ view.fetched
    /\ auth.accessToken # NoToken
    /\ conn[c].stage = "idle"
    /\ LET loading == authReducer(auth, [AuthAction("SET_LOADING") EXCEPT !.loading = TRUE])
       IN  IF validateCreateForm(subdomain) # NULL
           THEN /\ view' = [view EXCEPT !.error = validateCreateForm(subdomain)]
                /\ UNCHANGED <<now, tenants, tenant_person, token_blacklist, tokens,
                               conn, auth, localStorage>>
           ELSE /\ CreateBegin(c, auth.accessToken, subdomain)
                /\ auth' = IF conn'[c].res.status = "pending" THEN loading
                           ELSE authReducer(loading, AuthAction("SET_LOADING"))
                /\ view' = Rendered(view, auth, <<loading, auth'>>,
                                     create_error(http_status(conn'[c].res.status)))
                /\ UNCHANGED localStorage
    /\ UNCHANGED lastRequest

\* the server answers the creation: LOGIN_SUCCESS with the new tenant
ClientCreated(c) ==
    /\ conn[c].res.op = "create"
    /\ CreateCommit(c)
    /\ LET res == conn'[c].res
           A == TokenOf(res.issued, "access")
           R == TokenOf(res.issued, "refresh")
           after == authReducer(auth,
                        [AuthAction("LOGIN_SUCCESS") EXCEPT
                            !.user = A.sub, !.tenant = A.tenant_id,
                            !.accessToken = A, !.refreshToken = R])
       IN  /\ auth' = after
           /\ localStorage' =
                 DashboardEffect(saveSession(localStorage, A.sub, A.tenant_id, A, R), after)
    /\ UNCHANGED <<lastRequest, view>>

\* the creation fails between its two inserts: the error is thrown to a
\* form that was unmounted when the loading state began
ClientCreateFailed(c, how) ==
    /\ conn[c].res.op = "create"
    /\ conn[c].stage = "tx"
    /\ Abort(c, how)
    /\ auth' = authReducer(auth, AuthAction("SET_LOADING"))
    /\ UNCHANGED <<localStorage, lastRequest, view>>

\* selectTenant(tenant) of the AuthProvider
ClientSelectTenant(t) ==
    /\ auth.isAuthenticated
    /\ ~auth.isLoading
    /\ AllIdle
    /\ t \in ExistingTenantIds
    /\ LET after == authReducer(auth, [AuthAction("SELECT_TENANT") EXCEPT !.tenant = t])
       IN  /\ auth' = after
           /\ localStorage' =
                 DashboardEffect(
                     [localStorage EXCEPT !.currentTenant = JSON_stringify(t)], after)
           /\ view' = Rendered(view, auth, <<after>>, view.error)
    /\ UNCHANGED <<now, tenants, tenant_person, token_blacklist, tokens, conn, lastRequest>>

\* the logout button of the dashboard or of TenantSelection: logout() of the
\* AuthProvider; whatever the server answers, finally clearSession()
ClientLogout(c) ==
    /\ Route(auth) \in {"Dashboard", "TenantSelection"}
    /\ LogoutWith(c, auth.accessToken, auth.refreshToken, auth.currentTenant)
    /\ auth' = authReducer(auth, AuthAction("CLEAR_SESSION"))
    /\ localStorage' = clearSession(localStorage)
    /\ lastRequest' = NoRequest
    /\ view' = Remount(view)

NextClient ==
    \/ Tick /\ UNCHANGED clientVars
    \/ PageLoad
    \/ \E c \in Conns : PageLoadRefresh(c)
    \/ \E c \in Conns, email \in Emails, pwOk \in BOOLEAN,
          m \in Members \cup {NoMembership} : ClientLogin(c, email, pwOk, m)
    \/ \E c \in Conns : ClientRequest(c)
    \/ \E c \in Conns, tbl \in TenantTables : ClientResponse(c, tbl)
    \/ \E c \in Conns, resetOk \in BOOLEAN : Release(c, resetOk) /\ UNCHANGED clientVars

SpecClient == Init /\ [][NextClient]_vars

\* the program's own steps of the client: the server's answer arrives and the
\* connection goes back to the pool without anybody acting; a page load, a
\* login or a navigation is the user's
SpecClientLive ==
    /\ Init
    /\ [][NextClient]_vars
    /\ WF_vars(\E c \in Conns, tbl \in TenantTables : ClientResponse(c, tbl))
    /\ WF_vars(\E c \in Conns, resetOk \in BOOLEAN :
                  Release(c, resetOk) /\ UNCHANGED clientVars)

\* ------------------------------------------------- the client's session
\* Every operation of the AuthProvider (login, register, joinTenant,
\* createAndJoinTenant, selectTenant, logout) and the screens that call them,
\* with a second browser of the same person joining tenants.
NextSession ==
    \/ Tick /\ UNCHANGED clientVars
    \/ PageLoad
    \/ \E c \in Conns : PageLoadRefresh(c)
    \/ \E c \in Conns, email \in Emails, pwOk \in BOOLEAN,
          m \in Members \cup {NoMembership} : ClientLogin(c, email, pwOk, m)
    \/ \E c \in Conns : ClientRequest(c)
    \/ \E c \in Conns, tbl \in TenantTables : ClientResponse(c, tbl)
    \/ \E c \in Conns, resetOk \in BOOLEAN : Release(c, resetOk) /\ UNCHANGED clientVars
    \/ \E c \in Conns : ClearSession(c) /\ UNCHANGED clientVars
    \/ \E c \in Conns : ClientRegister(c)
    \/ \E c \in Conns : ClientFetchTenants(c)
    \/ \E c \in Conns, subdomain \in Subdomains, role \in JoinRoles :
          ClientJoin(c, subdomain, role)
    \/ \E c \in Conns, subdomain \in RequestedSubdomains : ClientCreate(c, subdomain)
    \/ \E c \in Conns : ClientCreated(c)
    \/ \E c \in Conns, how \in {"Error", "Cancelled"} : ClientCreateFailed(c, how)
    \/ \E t \in TenantIds : ClientSelectTenant(t)
    \/ \E c \in Conns : ClientLogout(c)
    \/ \E c \in Conns, A \in tokens, subdomain \in Subdomains, role \in JoinRoles :
          JoinTenant(c, A, subdomain, role) /\ UNCHANGED clientVars

SpecSession == Init /\ [][NextSession]_vars

\* ------------------------------------------------------ tenant lifecycle
\* UPDATE tenants SET is_active = false WHERE id = t: a tenant is deactivated,
\* never deleted
DeactivateTenant(t) ==
    /\ AllIdle
    /\ \E row \in tenants :
          /\ row.id = t
          /\ row.is_active
          /\ tenants' = (tenants \ {row}) \cup {[row EXCEPT !.is_active = FALSE]}
    /\ UNCHANGED <<now, tenant_person, token_blacklist, tokens, conn, clientVars>>

NextLifecycle ==
    \/ Next
    \/ \E t \in TenantIds : DeactivateTenant(t)

SpecLifecycle == Init /\ [][NextLifecycle]_vars

\* --------------------------------------------------- statements on a session
\* Statements issued directly on a database session, whatever its variable
\* holds: the policies are the database's last line of defence and apply to
\* every statement of every session, bound or not.

\* a new session: the variable was never set
DbConnect(c) ==
    /\ conn[c].stage = "idle"
    /\ conn' = [conn EXCEPT ![c] = IdleConn(Unset)]
    /\ UNCHANGED <<now, tenants, tenant_person, token_blacklist, tokens, clientVars>>

\* SELECT public.set_tenant_context(t): any uuid is accepted
DbSetTenant(c, t) ==
    /\ conn[c].stage = "idle"
    /\ conn' = [conn EXCEPT ![c] = IdleConn(set_tenant_context(t))]
    /\ UNCHANGED <<now, tenants, tenant_person, token_blacklist, tokens, clientVars>>

\* the variable is reset: from then on it reads as the empty string
DbReset(c) ==
    /\ conn[c].stage = "idle"
    /\ conn' = [conn EXCEPT ![c] = IdleConn(release("ok", conn[c].var))]
    /\ UNCHANGED <<now, tenants, tenant_person, token_blacklist, tokens, clientVars>>

\* SELECT * FROM tbl
DbSelect(c, tbl) ==
    /\ conn[c].stage = "idle"
    /\ LET v == conn[c].var
       IN  conn' = [conn EXCEPT ![c].res =
                 [NoRes EXCEPT !.op = "select", !.tbl = tbl, !.queried = TRUE,
                     !.status = IF QueryRaises(tbl, v) THEN "Error" ELSE "ok",
                     !.rows = IF QueryRaises(tbl, v) THEN {} ELSE Visible(tbl, v)]]
    /\ UNCHANGED <<now, tenants, tenant_person, token_blacklist, tokens, clientVars>>

\* the business entities of the schema
BusinessEntities == {"jobs", "orders", "items", "assets", "machines"}

\* tables with a column tenant_id UUID NOT NULL REFERENCES public.tenants(id)
HasTenantFk(tbl) == tbl \in DirectTables \cup RawTables

\* public.items has no tenant_id column and row-level security is not enabled
\* on it: one catalogue of parts for all tenants
ItemRows ==
    {[tbl |-> "items", id |-> <<"items", k>>, tenant_id |-> NULL, parent_id |-> NoId]
        : k \in {"part1", "part2"}}

\* SELECT * FROM items: no policy filters the rows
DbSelectItems(c) ==
    /\ conn[c].stage = "idle"
    /\ conn' = [conn EXCEPT ![c].res =
          [NoRes EXCEPT !.op = "select", !.tbl = "items", !.queried = TRUE,
              !.status = "ok", !.rows = ItemRows]]
    /\ UNCHANGED <<now, tenants, tenant_person, token_blacklist, tokens, clientVars>>

\* CREATE POLICY person_tenant_isolation ... USING (id IN (SELECT person_id
\* FROM tenant_person WHERE tenant_id = public.get_current_tenant_id())); the
\* subquery is itself filtered by the policy of tenant_person
person_tenant_isolation(row, v) ==
    row.id \in {m.person_id :
                  m \in {x \in Members : /\ tenant_person_tenant_isolation(x, v)
                                        /\ x.tenant_id = get_current_tenant_id(v)}}

\* public.person: the persons of the fixture
PersonRows ==
    {[tbl |-> "person", id |-> p, tenant_id |-> NULL, parent_id |-> NoId] : p \in Persons}

\* a person row about to be inserted (registration): no membership names it yet
NewPerson == [tbl |-> "person", id |-> "p3", tenant_id |-> NULL, parent_id |-> NoId]

\* the rows of public.person a statement reads, touches or inserts on a
\* session whose variable is v
person_statement(op, target, v) ==
    CASE op = "select" -> {r \in PersonRows : person_tenant_isolation(r, v)}
      [] op = "update" -> {r \in PersonRows : r.id = target /\ person_tenant_isolation(r, v)}
      [] OTHER -> {r \in {NewPerson} : person_tenant_isolation(r, v)}

\* SELECT / UPDATE ... WHERE id = target / INSERT on public.person
DbPerson(c, op, target) ==
    /\ conn[c].stage = "idle"
    /\ op \in {"select", "update", "insert"}
    /\ target \in (IF op = "update" THEN Persons
                   ELSE IF op = "insert" THEN {NewPerson.id} ELSE {NULL})
    /\ LET rows == person_statement(op, target, conn[c].var)
       IN  conn' = [conn EXCEPT ![c].res =
                 [NoRes EXCEPT !.op = op, !.tbl = "person", !.target = target,
                     !.queried = TRUE, !.rows = rows,
                     !.status = IF op = "insert" /\ rows = {} THEN "RlsViolation"
                                ELSE "ok"]]
    /\ UNCHANGED <<now, tenants, tenant_person, token_blacklist, tokens, clientVars>>

\* the policy of the row's table, applied to one row
Passes(row, v) ==
    IF row.tbl \in ChildTables THEN policy_parent(row, v)
    ELSE IF row.tbl \in RawTables THEN policy_raw(row, v)
    ELSE policy_direct(row, v)

\* UPDATE tbl SET ... WHERE id = target: FOR ALL USING (...) selects the rows
\* the statement may touch; a column outside the policy is changed, so the
\* statement touches the visible target row or nothing
DbUpdate(c, tbl, target) ==
    /\ conn[c].stage = "idle"
    /\ LET v == conn[c].var
       IN  conn' = [conn EXCEPT ![c].res =
                 [NoRes EXCEPT !.op = "update", !.tbl = tbl, !.target = target,
                     !.queried = TRUE,
                     !.status = IF QueryRaises(tbl, v) THEN "Error" ELSE "ok",
                     !.rows = IF QueryRaises(tbl, v) THEN {}
                              ELSE {r \in TableRows(tbl) : r.id = target /\ Passes(r, v)}]]
    /\ UNCHANGED <<now, tenants, tenant_person, token_blacklist, tokens, clientVars>>

\* INSERT INTO tbl a further row of tenant owner (a child row under owner's
\* parent row): a FOR ALL policy without WITH CHECK applies its USING
\* expression to the new row; the accepted row is one more row of that tenant
DbInsert(c, tbl, owner) ==
    /\ conn[c].stage = "idle"
    /\ owner \in ExistingTenantIds
    /\ LET v == conn[c].var
           row == CHOOSE r \in TableRows(tbl) : r.id = <<tbl, owner>>
           accepted == ~QueryRaises(tbl, v) /\ Passes(row, v)
       IN  conn' = [conn EXCEPT ![c].res =
                 [NoRes EXCEPT !.op = "insert", !.tbl = tbl, !.target = row.id,
                     !.queried = TRUE,
                     !.status = IF QueryRaises(tbl, v) THEN "Error"
                                ELSE IF accepted THEN "ok" ELSE "RlsViolation",
                     !.rows = IF accepted THEN {row} ELSE {}]]
    /\ UNCHANGED <<now, tenants, tenant_person, token_blacklist, tokens, clientVars>>

NextDb ==
    \/ \E c \in Conns : DbConnect(c)
    \/ \E c \in Conns, t \in TenantIds : DbSetTenant(c, t)
    \/ \E c \in Conns : DbReset(c)
    \/ \E c \in Conns, tbl \in TenantTables : DbSelect(c, tbl)
    \/ \E c \in Conns : DbSelectItems(c)
    \/ \E c \in Conns, op \in {"select", "update", "insert"},
          target \in Persons \cup {NewPerson.id, NULL} : DbPerson(c, op, target)
    \/ \E c \in Conns, tbl \in TenantTables, t \in TenantIds : DbUpdate(c, tbl, <<tbl, t>>)
    \/ \E c \in Conns, tbl \in TenantTables, t \in TenantIds : DbInsert(c, tbl, t)

SpecDb == Init /\ [][NextDb]_vars

\* ------------------------------------------- constraints between the tables
\* Inserts and updates whose row names rows of other tables, or carries a
\* number that a UNIQUE constraint keeps apart.

\* tables with both job_id REFERENCES jobs(id) and a tenant_id of their own
JobChildTables == {"manufacturing_job", "qa_job", "service_job", "job_history"}

\* tables linking a machine to a row of a second tenant-scoped table
MachineLinkTables == {"machine_job_assignments", "machine_asset_relationships"}

\* the table the second foreign key of a machine link references
LinkedTable(tbl) == IF tbl = "machine_job_assignments" THEN "jobs" ELSE "assets"

\* col UUID NOT NULL REFERENCES parent(id): the referenced row exists; the
\* check reads the parent table without its policy
references(parent, id) == id \in {p.id : p \in TableRows(parent)}

\* the tenant of the row of tbl with that id
TenantOf(tbl, id) == (CHOOSE p \in TableRows(tbl) : p.id = id).tenant_id

\* a new row of a job child table
JobChild(tbl, tenant, job) ==
    [tbl |-> tbl, id |-> <<tbl, "new">>, tenant_id |-> tenant, parent_id |-> job]

\* INSERT INTO manufacturing_job | qa_job | service_job | job_history
\* (job_id, tenant_id, ...): the policy compares the row's tenant_id with the
\* session's tenant, UNIQUE(job_id, tenant_id) keeps a second row for the job
\* of the same tenant out (job_history has no such constraint), and the two
\* foreign keys are checked
insert_job_child(row, v) ==
    IF ~policy_direct(row, v) THEN "RlsViolation"
    ELSE IF row.tbl # "job_history" /\ row.parent_id = <<"jobs", row.tenant_id>>
                                    /\ references("jobs", row.parent_id)
    THEN "UniqueViolation"
    ELSE IF row.tenant_id \notin ExistingTenantIds \/ ~references("jobs", row.parent_id)
    THEN "ForeignKeyViolation"
    ELSE "ok"

DbInsertJobChild(c, tbl, tenant, job) ==
    /\ conn[c].stage = "idle"
    /\ tbl \in JobChildTables
    /\ LET row == JobChild(tbl, tenant, job)
           status == insert_job_child(row, conn[c].var)
       IN  conn' = [conn EXCEPT ![c].res =
                 [NoRes EXCEPT !.op = "insert", !.tbl = tbl, !.target = row.id,
                     !.queried = TRUE, !.status = status,
                     !.rows = IF status = "ok" THEN {row} ELSE {}]]
    /\ UNCHANGED <<now, tenants, tenant_person, token_blacklist, tokens, clientVars>>

\* a new row of a machine link table: machine_id and job_id or asset_id
MachineLink(tbl, machine, linked) ==
    [tbl |-> tbl, id |-> <<tbl, "new">>, tenant_id |-> NULL, parent_id |-> machine,
     linked_id |-> linked]

\* INSERT INTO machine_job_assignments (machine_id, job_id, ...) or
\* machine_asset_relationships (machine_id, asset_id, relationship_type, ...):
\* the policy looks at machine_id only; UNIQUE(machine_id, job_id) keeps the
\* pair every tenant already holds out, a relationship of a further type is
\* a new key of UNIQUE(machine_id, asset_id, relationship_type)
insert_machine_link(row, v) ==
    IF ~policy_parent(row, v) THEN "RlsViolation"
    ELSE IF /\ row.tbl = "machine_job_assignments"
            /\ row.linked_id = <<"jobs", TenantOf("machines", row.parent_id)>>
    THEN "UniqueViolation"
    ELSE IF ~references(LinkedTable(row.tbl), row.linked_id)
    THEN "ForeignKeyViolation"
    ELSE "ok"

DbInsertMachineLink(c, tbl, machine, linked) ==
    /\ conn[c].stage = "idle"
    /\ tbl \in MachineLinkTables
    /\ LET row == MachineLink(tbl, machine, linked)
           status == insert_machine_link(row, conn[c].var)
       IN  conn' = [conn EXCEPT ![c].res =
                 [NoRes EXCEPT !.op = "insert", !.tbl = tbl, !.target = row.id,
                     !.queried = TRUE, !.status = status,
                     !.rows = IF status = "ok" THEN {row} ELSE {}]]
    /\ UNCHANGED <<now, tenants, tenant_person, token_blacklist, tokens, clientVars>>

\* tables whose rows carry a number: orders.order_number, jobs.job_number
NumberedTables == {"orders", "jobs"}

\* the numbers a row may carry
Numbers == {"0001", "0002", "0003", "0004"}

\* the number of the row a tenant holds: every tenant numbers its first job
\* 0001; the orders of different tenants carry different numbers
NumberOf(tbl, t) ==
    IF tbl = "jobs" THEN "0001"
    ELSE CASE t = "t1" -> "0001" [] t = "t2" -> "0002" [] t = "t3" -> "0003"
           [] OTHER -> "0004"

Numbered(tbl, id, t, n) ==
    [tbl |-> tbl, id |-> id, tenant_id |-> t, parent_id |-> NoId, number |-> n]

\* the rows of orders or jobs, with their numbers
NumberedRows(tbl) ==
    {Numbered(tbl, <<tbl, t>>, t, NumberOf(tbl, t)) : t \in ExistingTenantIds}

\* orders: order_number VARCHAR(50) UNIQUE NOT NULL;
\* jobs: UNIQUE(tenant_id, job_number)
SameKey(a, b) ==
    /\ a.number = b.number
    /\ a.tbl = "jobs" => a.tenant_id = b.tenant_id

\* INSERT INTO orders | jobs (tenant_id, order_number | job_number, ...) into
\* a table holding rows
insert_numbered(rows, row, v) ==
    IF ~policy_direct(row, v) THEN "RlsViolation"
    ELSE IF \E r \in rows : SameKey(row, r) THEN "UniqueViolation"
    ELSE IF row.tenant_id \notin ExistingTenantIds THEN "ForeignKeyViolation"
    ELSE "ok"

DbInsertNumbered(c, tbl, t, n) ==
    /\ conn[c].stage = "idle"
    /\ tbl \in NumberedTables
    /\ LET row == Numbered(tbl, <<tbl, "new">>, t, n)
           status == insert_numbered(NumberedRows(tbl), row, conn[c].var)
       IN  conn' = [conn EXCEPT ![c].res =
                 [NoRes EXCEPT !.op = "insert", !.tbl = tbl, !.target = row.id,
                     !.queried = TRUE, !.status = status,
                     !.rows = IF status = "ok" THEN {row} ELSE {}]]
    /\ UNCHANGED <<now, tenants, tenant_person, token_blacklist, tokens, clientVars>>

\* UPDATE orders | jobs SET order_number | job_number = n WHERE id = target,
\* on a table holding rows: the statement touches the target if the policy
\* shows it, and the new number must not collide with another row
renumber(rows, target, n, v) ==
    LET hit == {r \in rows : r.id = target /\ policy_direct(r, v)}
    IN  IF hit = {} THEN "NoRow"
        ELSE IF \E h \in hit, r \in rows :
                    r.id # h.id /\ SameKey([h EXCEPT !.number = n], r)
        THEN "UniqueViolation"
        ELSE "ok"

DbRenumber(c, tbl, t, n) ==
    /\ conn[c].stage = "idle"
    /\ tbl \in NumberedTables
    /\ LET status == renumber(NumberedRows(tbl), <<tbl, t>>, n, conn[c].var)
       IN  conn' = [conn EXCEPT ![c].res =
                 [NoRes EXCEPT !.op = "update", !.tbl = tbl, !.target = <<tbl, t>>,
                     !.queried = TRUE, !.status = status,
                     !.rows = IF status = "ok"
                              THEN {Numbered(tbl, <<tbl, t>>, t, n)} ELSE {}]]
    /\ UNCHANGED <<now, tenants, tenant_person, token_blacklist, tokens, clientVars>>

NextSchema ==
    \/ \E c \in Conns : DbConnect(c)
    \/ \E c \in Conns, t \in TenantIds : DbSetTenant(c, t)
    \/ \E c \in Conns : DbReset(c)
    \/ \E c \in Conns, tbl \in JobChildTables, t \in TenantIds, j \in TenantIds :
          DbInsertJobChild(c, tbl, t, <<"jobs", j>>)
    \/ \E c \in Conns, tbl \in MachineLinkTables, m \in TenantIds, l \in TenantIds :
          DbInsertMachineLink(c, tbl, <<"machines", m>>, <<LinkedTable(tbl), l>>)
    \/ \E c \in Conns, tbl \in NumberedTables, t \in TenantIds, n \in Numbers :
          DbInsertNumbered(c, tbl, t, n)
    \/ \E c \in Conns, tbl \in NumberedTables, t \in TenantIds, n \in Numbers :
          DbRenumber(c, tbl, t, n)

SpecSchema == Init /\ [][NextSchema]_vars

\* ----------------------------------------------------------------- claims
TokenErrors == {"Malformed", "Expired", "WrongType", "Revoked"}

\* C1: a request served with a token bound to tenant T returns, from every
\* tenant-scoped table, only rows that belong to T
C1_TenantIsolation ==
    \A c \in Conns :
        (conn[c].res.op = "data" /\ conn[c].res.queried) =>
            \A r \in conn[c].res.rows : RowTenant(r) = conn[c].res.tok.tenant_id

\* a served query on a child table, rows returned, while other tenants hold
\* rows of the same table
C1_Witness ==
    \E c \in Conns :
        /\ conn[c].res.op = "data" /\ conn[c].res.status = "ok"
        /\ conn[c].res.tok.tenant_id = "t2"
        /\ \E r \in conn[c].res.rows :
              /\ r.tbl = "machine_job_assignments"
              /\ \E o \in TableRows(r.tbl) : RowTenant(o) # "t2"

\* C2: a connection in the pool never carries a tenant binding, whatever the
\* exit path of the request that used it, and a query only ever runs under
\* the binding of its own request
C2_ReleasedUnbound ==
    \A c \in Conns :
        /\ conn[c].stage = "idle" => get_current_tenant_id(conn[c].var) = NULL
        /\ conn[c].res.queried =>
              get_current_tenant_id(conn[c].var) = conn[c].res.tok.tenant_id

\* a connection that served a tenant-bound logout is back in the pool, reset
C2_Witness ==
    \E c \in Conns :
        /\ conn[c].stage = "idle"
        /\ conn[c].var = Empty
        /\ token_blacklist # {}

\* C3: a request whose valid token carries tenant A and whose header names
\* another tenant B ends in TenantMismatch, with no query run and the session
\* bound to neither tenant
C3_TenantMismatch ==
    \A c \in Conns :
        ( /\ conn[c].res.op = "data"
          /\ conn[c].res.checked = "ok"
          /\ conn[c].res.tok.tenant_id # NULL
          /\ conn[c].res.hdr \notin {NULL, conn[c].res.tok.tenant_id} )
        => /\ conn[c].res.status = "TenantMismatch"
           /\ ~conn[c].res.queried
           /\ conn[c].res.rows = {}
           /\ get_current_tenant_id(conn[c].var) = NULL

\* a token of tenant t1 presented with the header of tenant t2
C3_Witness ==
    \E c \in Conns :
        /\ conn[c].res.op = "data"
        /\ conn[c].res.tok.tenant_id = "t1"
        /\ conn[c].res.hdr = "t2"
        /\ conn[c].res.status = "TenantMismatch"

\* C4: a valid access token without a tenant fails with NoTenantSelected on a
\* tenant-scoped endpoint, whatever the header, with no query run and no
\* tenant bound; the membership endpoints do not reject it for lacking one
C4_PendingNoTenantData ==
    \A c \in Conns :
        (conn[c].res.checked = "ok" /\ conn[c].res.tok.tenant_id = NULL) =>
            /\ conn[c].res.op = "data" =>
                  /\ conn[c].res.status = "NoTenantSelected"
                  /\ ~conn[c].res.queried
                  /\ conn[c].res.rows = {}
            /\ get_current_tenant_id(conn[c].var) = NULL
            /\ conn[c].res.op \in {"join", "create"} =>
                  conn[c].res.status \notin {"NoTenantSelected", "TenantMismatch"}

\* a pending person's token, sent with a tenant header, is turned away
C4_Witness ==
    \E c \in Conns :
        /\ conn[c].res.op = "data"
        /\ conn[c].res.tok.tenant_id = NULL
        /\ conn[c].res.hdr = "t1"
        /\ conn[c].res.status = "NoTenantSelected"

\* C5: a signed token whose hash is in the blacklist is rejected by
\* validation, on every endpoint and whatever the session of the lookup is
\* bound to
C5_BlacklistedRejected ==
    \A c \in Conns :
        (conn[c].res.blacklisted /\ conn[c].res.tok.sig = Signed) =>
            conn[c].res.checked \in TokenErrors

\* C6: a refresh carrying a refresh token that a logout has blacklisted fails
\* (Revoked, or Expired once the token is past its expiry) and returns no
\* token pair
C6_RevokedRefreshFails ==
    \A c \in Conns :
        (conn[c].res.op = "refresh" /\ conn[c].res.blacklisted) =>
            /\ conn[c].res.status \in {"Revoked", "Expired"}
            /\ conn[c].res.issued = {}

\* C7 as stated: after a successful refresh(R) the hash of R is in the blacklist
C7_RefreshRevokesOld ==
    \A c \in Conns :
        (conn[c].res.op = "refresh" /\ conn[c].res.status = "ok") =>
            InBlacklist(token_blacklist, conn[c].res.tok)

\* C7: a refresh inserts no blacklist record: the step that serves it leaves
\* the blacklist as it was, so the refresh does not revoke R
C7_RefreshKeepsBlacklist ==
    [][ (\E c \in Conns : conn[c].stage = "idle" /\ conn'[c].res.op = "refresh")
            => token_blacklist' = token_blacklist ]_vars

\* a refresh served with a new pair while R is in no blacklist record
C7_Witness ==
    \E c \in Conns :
        /\ conn[c].res.op = "refresh" /\ conn[c].res.status = "ok"
        /\ ~InBlacklist(token_blacklist, conn[c].res.tok)
        /\ \E n \in conn[c].res.issued : n.iat > conn[c].res.tok.iat

\* bl holds a record for tok keyed by its hash, tenant and person
RevokedIn(bl, tok) ==
    \E r \in bl :
        /\ r.token_hash = token_hash(tok)
        /\ r.token_type = tok.typ
        /\ r.tenant_id = tok.tenant_id
        /\ r.person_id = tok.sub

\* C8 as stated: every logout of a session whose access token is valid leaves
\* a blacklist record for both tokens of the session
C8_EveryLogoutRevokes ==
    [][ \A c \in Conns :
          (conn[c].stage = "idle" /\ conn'[c].res.op = "logout"
              /\ conn'[c].res.checked = "ok") =>
              /\ RevokedIn(token_blacklist', conn'[c].res.tok)
              /\ RevokedIn(token_blacklist', conn'[c].res.tok2) ]_vars

\* C8: a logout the server accepts leaves a record for both tokens, keyed by
\* hash, tenant and person; it is accepted whenever the session has a current
\* tenant and a valid access token; a session without a current tenant never
\* calls the server and its tokens get no record
C8_ServedLogoutRevokes ==
    [][ \A c \in Conns :
          (conn[c].stage = "idle" /\ conn'[c].res.op = "logout") =>
              /\ conn'[c].res.status = "ok" =>
                    /\ RevokedIn(token_blacklist', conn'[c].res.tok)
                    /\ RevokedIn(token_blacklist', conn'[c].res.tok2)
              /\ (conn'[c].res.checked = "ok" /\ conn'[c].res.tok.tenant_id # NULL) =>
                    conn'[c].res.status = "ok"
              /\ conn'[c].res.tok.tenant_id = NULL =>
                    /\ conn'[c].res.status = "NotSent"
                    /\ token_blacklist' = token_blacklist
                    /\ ~InBlacklist(token_blacklist', conn'[c].res.tok)
                    /\ ~InBlacklist(token_blacklist', conn'[c].res.tok2) ]_vars

\* a served logout, both records in place
C8_Witness ==
    \E c \in Conns :
        /\ conn[c].res.op = "logout" /\ conn[c].res.status = "ok"
        /\ RevokedIn(token_blacklist, conn[c].res.tok)
        /\ RevokedIn(token_blacklist, conn[c].res.tok2)
        /\ Cardinality(token_blacklist) = 2

\* C9: a committed tenant that create-tenant made has exactly one membership
\* that is internal and primary, at every moment, and a creation that failed
\* or was aborted leaves no tenant of that subdomain
C9_CreateAtomic ==
    /\ \A t \in tenants \ InitTenants :
          \E m \in Members :
              /\ m.tenant_id = t.id /\ m.role = "internal" /\ m.is_primary
              /\ CopiesIn(m, tenant_person) = 1
    /\ \A c \in Conns :
          conn[c].res.op = "create" =>
              /\ conn[c].res.status = "ok" =>
                    \E t \in tenants, m \in Members :
                        /\ t.subdomain = conn[c].res.subdomain
                        /\ m.tenant_id = t.id
                        /\ m.person_id = conn[c].res.tok.sub
                        /\ m.role = "internal" /\ m.is_primary
              /\ conn[c].res.status \in {"Error", "Cancelled"} =>
                    tenant_by_subdomain(conn[c].res.subdomain) = {}

\* a creation that failed between the two inserts
C9_Witness ==
    \E c \in Conns :
        /\ conn[c].res.op = "create"
        /\ conn[c].res.status = "Error"
        /\ conn[c].stage = "done"

\* the membership rows of a person in a tenant
RowsOf(p, t) == {m \in Members : m.person_id = p /\ m.tenant_id = t}

\* C10 as stated: a person never has more than one membership row in a tenant
C10_OneRowPerTenant ==
    \A p \in Persons, t \in TenantIds : Cardinality(RowsOf(p, t)) <= 1

\* C10: a joinTenant call that gets as far as the membership check yields
\* AlreadyMember exactly when a row for the same person, tenant and role
\* exists, and no (person, tenant, role) ever has more than one row
C10_OneRowPerRole ==
    /\ \A m \in Members : CopiesIn(m, tenant_person) = 1
    /\ \A m1, m2 \in Members :
          (m1.person_id = m2.person_id /\ m1.tenant_id = m2.tenant_id
              /\ m1.role = m2.role) => m1 = m2
    /\ \A c \in Conns :
          (conn[c].res.op = "join" /\ conn[c].res.status \in {"ok", "AlreadyMember"}) =>
              (conn[c].res.status = "AlreadyMember" <=> conn[c].res.member)

\* a second join with the role of an existing row, by a person who holds two
\* rows of different roles in that tenant
C10_Witness ==
    \E c \in Conns :
        /\ conn[c].res.op = "join"
        /\ conn[c].res.status = "AlreadyMember"
        /\ \E t \in tenants :
              /\ t.subdomain = conn[c].res.subdomain
              /\ Cardinality(RowsOf(conn[c].res.tok.sub, t.id)) = 2

\* C11: a query against any tenant-scoped table on a session with no bound
\* tenant (the variable never set, or reset to empty) returns an empty result
\* and never raises
C11_UnboundQueryEmpty ==
    \A c \in Conns :
        (/\ conn[c].res.op = "select"
         /\ conn[c].res.tbl \in TenantTables
         /\ get_current_tenant_id(conn[c].var) = NULL)
        => (conn[c].res.status = "ok" /\ conn[c].res.rows = {})

\* C12: every row of a child table without a tenant_id column that a
\* statement reads, updates or inserts hangs off a parent row of the tenant
\* bound to the session
C12_ChildThroughParent ==
    \A c \in Conns :
        (conn[c].res.op \in {"select", "update", "insert"} /\ conn[c].res.tbl \in ChildTables)
        => \A r \in conn[c].res.rows :
              /\ get_current_tenant_id(conn[c].var) # NULL
              /\ RowTenant(r) = get_current_tenant_id(conn[c].var)

\* a bound session has written (update, insert) and read rows of child tables
C12_Witness ==
    \E c \in Conns :
        /\ conn[c].res.op \in {"update", "insert"}
        /\ conn[c].res.tbl \in ChildTables
        /\ conn[c].res.rows # {}
        /\ conn[c].var \in TenantIds

\* C13: every business entity (jobs, orders, items, assets, machines) has a
\* mandatory foreign key to its tenant, and a query on a session without a
\* resolved tenant reaches none of its rows
C13_BusinessEntitiesScoped ==
    \A c \in Conns :
        (conn[c].res.op = "select" /\ conn[c].res.tbl \in BusinessEntities)
        => /\ HasTenantFk(conn[c].res.tbl)
           /\ (get_current_tenant_id(conn[c].var) = NULL => conn[c].res.rows = {})

\* the values the session variable takes
SessionValues == TenantIds \cup {Unset, Empty}

\* C14: what a statement on public.person reads, updates or inserts is the
\* same whatever tenant, if any, is bound to the session, and a row of a
\* person can be inserted
C14_PersonNotTenantScoped ==
    \A c \in Conns :
        conn[c].res.tbl = "person"
        => /\ \A v \in SessionValues :
                 conn[c].res.rows = person_statement(conn[c].res.op, conn[c].res.target, v)
           /\ conn[c].res.status = "ok"

\* C15: the subdomains of the tenants are pairwise distinct without regard to
\* case and spelled in [a-z0-9-] only, and a create-tenant request whose
\* subdomain collides with a tenant's fails with SubdomainTaken and creates
\* neither a tenant nor a membership nor a token
C15_SubdomainsUnique ==
    /\ [](/\ Cardinality({lower(t.subdomain) : t \in tenants}) = Cardinality(tenants)
          /\ \A t \in tenants :
                \A i \in DOMAIN Spelling(t.subdomain) :
                    Spelling(t.subdomain)[i] \in SubdomainChars)
    /\ [][\A c \in Conns :
            (/\ conn[c].stage = "idle"
             /\ conn'[c].res.op = "create"
             /\ conn'[c].res.checked = "ok"
             /\ \E t \in tenants : lower(t.subdomain) = lower(conn'[c].res.subdomain))
            => /\ conn'[c].res.status = "SubdomainTaken"
               /\ conn'[c].stage = "done"
               /\ conn'[c].tx = {}
               /\ UNCHANGED <<tenants, tenant_person, tokens>>]_vars

\* a tenant was created, and a later request for its subdomain in another
\* case was refused
C15_Witness ==
    /\ \E t \in tenants : t \notin InitTenants /\ t.subdomain = "beta"
    /\ \E c \in Conns :
          /\ conn[c].res.op = "create"
          /\ conn[c].res.subdomain = "Beta"
          /\ conn[c].res.status = "SubdomainTaken"

\* the tenants that are deactivated
InactiveTenantIds == {t.id : t \in {u \in tenants : ~u.is_active}}

\* C16: no step binds a session to a tenant that is deactivated when the step
\* is taken, and no step signs a token bound to such a tenant
C16_NoBindingToDeactivated ==
    [][\A t \in InactiveTenantIds :
          /\ \A c \in Conns : conn'[c].var = t => conn[c].var = t
          /\ \A k \in tokens' \ tokens : k.tenant_id # t]_vars

\* the response of a failed login
FailedLogin ==
    [NoRes EXCEPT !.op = "login", !.status = "InvalidCredentials",
        !.message = "Invalid email or password"]

C18_ExpiredRefreshedOnce ==
    lastRequest.status = "Expired"
    => /\ lastRequest.refreshCalls = 1
       /\ (lastRequest.retried \/ ~auth.isAuthenticated)

\* C19: the answer to the accessible-tenants lookup of a person is exactly
\* the set of active tenants in which the person has a membership, whatever
\* the session that runs the lookup is bound to
C19_ListsMemberships ==
    \A c \in Conns :
        (conn[c].res.op = "list" /\ conn[c].res.status = "ok")
        => conn[c].res.rows =
              {t \in tenants :
                  /\ t.is_active
                  /\ \E m \in Members : /\ m.person_id = conn[c].res.tok.sub
                                        /\ m.tenant_id = t.id}

\* C20: a login by a person without a membership is answered with tokens that
\* carry no tenant, leaves the client authenticated with an empty
\* currentTenant on the tenant selection screen, and the dashboard is never
\* shown while currentTenant is empty
C20_PendingLoginSelectsTenant ==
    /\ [](Route(auth) = "Dashboard" => auth.currentTenant # NULL)
    /\ [][\A c \in Conns :
            (/\ conn[c].stage = "idle"
             /\ conn'[c].res.op = "login"
             /\ conn'[c].res.status = "ok"
             /\ \A k \in conn'[c].res.issued : LoginMemberships(k.sub) = {})
            => /\ \A k \in conn'[c].res.issued : k.tenant_id = NULL
               /\ auth'.isAuthenticated
               /\ auth'.user \in {k.sub : k \in conn'[c].res.issued}
               /\ auth'.currentTenant = NULL
               /\ auth'.accessToken \in conn'[c].res.issued
               /\ Route(auth') = "TenantSelection"]_vars

\* the person without a membership has logged in
C20_Witness ==
    /\ auth.isAuthenticated
    /\ auth.user = "p2"
    /\ LoginMemberships("p2") = {}
    /\ auth.currentTenant = NULL
    /\ auth.accessToken.tenant_id = NULL
    /\ Route(auth) = "TenantSelection"

\* the blacklist records of a token
RecordsOf(bl, tok) == {r \in bl : r.token_hash = token_hash(tok)}

\* C21: no hash ever has more than one blacklist record, and a logout that
\* revokes a token whose hash is already in the blacklist succeeds, leaves the
\* record of that token as it was and the token with exactly one record
C21_RevokeIdempotent ==
    /\ [](\A r1, r2 \in token_blacklist : r1.token_hash = r2.token_hash => r1 = r2)
    /\ [][\A c \in Conns :
            (/\ conn[c].stage = "idle"
             /\ conn'[c].res.op = "logout"
             /\ conn'[c].res.checked = "ok"
             /\ conn'[c].res.tok.tenant_id # NULL)
            => \A k \in {conn'[c].res.tok, conn'[c].res.tok2} :
                  InBlacklist(token_blacklist, k) =>
                      /\ conn'[c].res.status = "ok"
                      /\ RecordsOf(token_blacklist', k) = RecordsOf(token_blacklist, k)
                      /\ Cardinality(RecordsOf(token_blacklist', k)) = 1]_vars

\* a logout was served whose refresh token an earlier logout had revoked and
\* whose access token no logout had
C21_Witness ==
    \E c \in Conns :
        /\ conn[c].res.op = "logout" /\ conn[c].res.status = "ok"
        /\ conn[c].res.blacklisted2 /\ ~conn[c].res.blacklisted
        /\ Cardinality(RecordsOf(token_blacklist, conn[c].res.tok2)) = 1
        /\ Cardinality(token_blacklist) = 3

\* C22: a step that deletes blacklist records deletes only records whose
\* expiry has passed, and no token, on no session, is validated differently
\* after the deletion than before it
C22_PurgeKeepsValidation ==
    [][token_blacklist \ token_blacklist' # {} =>
          /\ \A r \in token_blacklist \ token_blacklist' : r.expires_at < now
          /\ \A tok \in Bearer, ty \in {"access", "refresh"}, v \in SessionValues :
                validate(tok, ty, token_blacklist', v, now)
                    = validate(tok, ty, token_blacklist, v, now)]_vars

\* the only session ever opened was logged out, and the record of its access
\* token has been purged since, that of its refresh token not yet
C22_Witness ==
    /\ Cardinality(tokens) = 2
    /\ \E A, R \in tokens :
          /\ A.typ = "access" /\ R.typ = "refresh"
          /\ A.exp < now
          /\ ~InBlacklist(token_blacklist, A)
          /\ InBlacklist(token_blacklist, R)

\* C23: every data request the client sends carries an X-Tenant-ID header
\* equal to the tenant id bound in the access token it carries
C23_HeaderMatchesToken ==
    \A c \in Conns :
        conn[c].res.op = "data" => conn[c].res.hdr = conn[c].res.tok.tenant_id

\* C24: a logout, whatever the server answers to it, leaves the client
\* unauthenticated and localStorage without accessToken, refreshToken, user,
\* currentTenant and tenantId
C24_LogoutClearsSession ==
    [][(\E c \in Conns : conn[c].stage = "idle" /\ conn'[c].res.op = "logout")
          => /\ ~auth'.isAuthenticated
             /\ localStorage' = EmptyStorage]_vars

\* the refresh that loadSession started for an expired stored token was
\* answered with a new pair
RefreshedAtStart == \E c \in Conns : conn[c].res.op = "refresh" /\ conn[c].res.status = "ok"

\* the client has left the loading state and is authenticated with the
\* stored user and tenant
SessionRestored ==
    /\ ~auth.isLoading
    /\ auth.isAuthenticated
    /\ localStorage.user # NULL /\ auth.user = JSON_parse(localStorage.user)
    /\ localStorage.currentTenant # NULL
    /\ auth.currentTenant = JSON_parse(localStorage.currentTenant)

\* C25: once the refresh that the application start made for an expired
\* stored access token has succeeded, the client eventually leaves the
\* loading state, authenticated with the stored user and tenant
C25_RefreshedStartRestores == RefreshedAtStart ~> SessionRestored

\* the tenants section 4.5 has listAccessibleTenants return for a person: the
\* active tenants in which the person has a membership
AccessibleTenants(person) ==
    {t \in tenants :
        /\ t.is_active
        /\ \E m \in Members : m.person_id = person /\ m.tenant_id = t.id}

InFlight == auth.isLoading \/ \E c \in Conns : conn[c].stage # "idle"

\* C27: whenever no auth operation is in flight, accessToken, refreshToken
\* and user are either present with equal values in the AuthState and in
\* localStorage, or absent from both
C27_StateMatchesStorage ==
    ~InFlight =>
        /\ auth.accessToken = localStorage.accessToken
        /\ auth.refreshToken = localStorage.refreshToken
        /\ IF localStorage.user = NULL THEN auth.user = NULL
           ELSE auth.user # NULL /\ auth.user = JSON_parse(localStorage.user)

\* the message the form shows for a failed answer res
FailureMessage(res) ==
    IF res.op = "login" THEN res.message
    ELSE IF res.op = "join" THEN join_error(http_status(res.status))
    ELSE create_error(http_status(res.status))

\* C30: when login, joinTenant or createAndJoinTenant fails, the form that
\* started it is the same mounted instance after the loading state ends and
\* shows the error message of that failure
C30_FailedFormShowsError ==
    [][\A c \in Conns :
          (/\ conn[c].stage = "idle"
           /\ conn'[c].stage # "idle"
           /\ conn'[c].res.op \in {"login", "join", "create"}
           /\ conn'[c].res.status \notin {"ok", "pending"}
           /\ view' # view)
          => /\ view'.instance = view.instance
             /\ view'.error = FailureMessage(conn'[c].res)]_vars

\* C28: every child row that carries its own tenant_id or references a second
\* tenant-scoped parent belongs to the same tenant as each parent it
\* references: an accepted manufacturing_job, qa_job, service_job or
\* job_history row has the tenant_id of its job, and an accepted
\* machine_job_assignment or machine_asset_relationship links a machine to a
\* job or asset of the machine's tenant
C28_ChildRowsShareParentTenant ==
    \A c \in Conns : \A r \in conn[c].res.rows :
        /\ (conn[c].res.op = "insert" /\ r.tbl \in JobChildTables)
              => r.tenant_id = TenantOf("jobs", r.parent_id)
        /\ (conn[c].res.op = "insert" /\ r.tbl \in MachineLinkTables)
              => TenantOf("machines", r.parent_id)
                    = TenantOf(LinkedTable(r.tbl), r.linked_id)

\* the rows of tbl that belong to tenant t
OwnRows(tbl, t) == {r \in NumberedRows(tbl) : r.tenant_id = t}

\* C29: whether creating or renumbering an order in tenant T succeeds never
\* depends on the orders of any other tenant: the statement ends as it would
\* on a table holding only the orders of T
C29_OrderOutcomeOwnTenantOnly ==
    [][\A c \in Conns, t \in TenantIds, n \in Numbers :
          /\ DbInsertNumbered(c, "orders", t, n)
                => conn'[c].res.status =
                      insert_numbered(OwnRows("orders", t),
                                      Numbered("orders", <<"orders", "new">>, t, n),
                                      conn[c].var)
          /\ DbRenumber(c, "orders", t, n)
                => conn'[c].res.status =
                      renumber(OwnRows("orders", t), <<"orders", t>>, n, conn[c].var)]_vars

====
